---- MODULE Spec2Model ----
(***************************************************************************)
(* Model of the indexing pipeline of mcp-codebase: change detection        *)
(* (GitService), run-mode selection (ProjectService.analyzeProject),       *)
(* chunk extraction and dependency reconciliation (CodeChunkingService)    *)
(* and the chunk upsert (CodeChunkRepository).                             *)
(*                                                                         *)
(* The source tree is abstracted to two source files holding a short list  *)
(* of declarations each.  A declaration has a name, a kind (function or    *)
(* const binding), a body version and the list of names its body refers    *)
(* to.  Every edit of the tree is committed, so the working tree is the    *)
(* tree of the HEAD commit.  One project is modelled.                      *)
(***************************************************************************)
EXTENDS Integers, Sequences, FiniteSets, TLC

\* ---------------------------------------------------------------- bounds
MaxRev == 2
MaxRuns == 2
\* longest list of texts handed to generateBatchEmbeddings on its own
MaxTexts == 4
\* texts per embedding request (300 in the source)
batchSize == 2
\* most top-level statements of a source file that is extracted on its own
MaxStatements == 2
\* most segments of a file path given to the single-file chunking tool
MaxSegments == 3
\* most chunks of a list whose dependency graph is walked on its own
MaxChunks == 2
\* most chunks of a list that is deduplicated on its own
MaxBatch == 3

\* ------------------------------------------------------------- universe
\* the absent lastCommitHash / the null result of a failed git command
Null == 0
\* an embedding that was never assigned
NoEmbedding == <<>>
\* the absent filesToAnalyze, and a present one
None == <<>>
Some(x) == <<x>>
ProjectId == "p1"
ProjectRoot == "/repo"
Files == {"main.ts", "util.ts"}
Names == {"add", "run"}
Bodies == {1, 2}

\* the two listing orders a directory walk of the two files can produce
FileOrders == {<<"main.ts", "util.ts">>, <<"util.ts", "main.ts">>}
\* git prints the changed paths sorted
SortedFiles == <<"main.ts", "util.ts">>

\* What fails during one analyze call, if anything: reading one file, the
\* embedding request that carries the chunks of one file, the chunk insert,
\* or the update of the project row.
NoFault == <<"none">>
ExtractFault(f) == <<"extract", f>>
EmbedFault(f) == <<"embed", f>>
SaveFault == <<"save">>
HashFault == <<"hash">>
Faults ==
  {SaveFault, HashFault} \cup {ExtractFault(f) : f \in Files}
    \cup {EmbedFault(f) : f \in Files}

InitTree ==
  [f \in Files |->
     IF f = "util.ts"
     THEN <<[name |-> "add", type |-> "function", body |-> 1, refs |-> <<>>]>>
     ELSE <<[name |-> "run", type |-> "function", body |-> 1,
             refs |-> <<"add", "console">>]>>]

\* ------------------------------------------------------ sequence helpers
Range(s) == {s[i] : i \in DOMAIN s}

RECURSIVE Flatten(_)
Flatten(ss) == IF ss = <<>> THEN <<>> ELSE Head(ss) \o Flatten(Tail(ss))

\* Array.from(new Set(xs)): first occurrences, in order
RECURSIVE DistinctInto(_, _)
DistinctInto(seen, xs) ==
  IF xs = <<>> THEN seen
  ELSE DistinctInto(IF Head(xs) \in Range(seen) THEN seen
                    ELSE Append(seen, Head(xs)),
                    Tail(xs))

Distinct(xs) == DistinctInto(<<>>, xs)

\* ------------------------------------------------------------ extraction
\* A syntax node: its kind, the text of its name identifier ("" when it has
\* none), the flags of the declaration list it stands in, the line it starts
\* on counted from the first line of its parent, the number of lines it
\* spans, and its child nodes.
AstNode(kind, name, flags, offset, lines, children) ==
  [kind |-> kind, name |-> name, flags |-> flags, offset |-> offset,
   lines |-> lines, children |-> children]

FunctionLikeKinds ==
  {"FunctionDeclaration", "MethodDeclaration", "ArrowFunction",
   "FunctionExpression"}

isFunctionLike(node) == node.kind \in FunctionLikeKinds

\* "" stands for null: the node is no chunk
getNodeType(node) ==
  IF isFunctionLike(node) THEN "function"
  ELSE IF node.kind = "ClassDeclaration" THEN "class"
  ELSE IF node.kind \in {"InterfaceDeclaration", "TypeAliasDeclaration"}
  THEN "type"
  ELSE IF node.kind = "VariableDeclaration" /\ node.flags = "const"
  THEN IF node.children # <<>> /\ isFunctionLike(node.children[1])
       THEN "function"
       ELSE "constant"
  ELSE ""

\* the name a chunk is given; "" when the node is not one of the named kinds
getNodeName(node) ==
  IF node.kind \in {"FunctionDeclaration", "ClassDeclaration",
                    "InterfaceDeclaration", "TypeAliasDeclaration"}
  THEN node.name
  ELSE IF node.kind = "VariableDeclaration" THEN node.name
  ELSE ""

\* Array.prototype.slice(from, to) on a list of lines
Slice(lines, from, to) ==
  LET hi == IF to > Len(lines) THEN Len(lines) ELSE to
  IN  IF from >= hi THEN <<>> ELSE SubSeq(lines, from + 1, hi)

\* the zero-based lines of a node's first and last character, made one-based
LinePosition(startLine, endLine) ==
  [lineStart |-> startLine + 1, lineEnd |-> endLine + 1]

\* number of source lines a declaration with this body occupies
NodeLines(sym) == sym.body + 1

RECURSIVE LinesBefore(_, _)
LinesBefore(syms, i) ==
  IF i <= 1 THEN 0 ELSE LinesBefore(syms, i - 1) + NodeLines(syms[i - 1])

getNodePosition(syms, i) ==
  LinePosition(LinesBefore(syms, i),
               LinesBefore(syms, i) + NodeLines(syms[i]) - 1)

\* The declarations of the tree are const bindings: sym.type tells whether
\* the initializer is an arrow function or another expression.
DeclarationOf(sym) ==
  AstNode("VariableDeclaration", sym.name, "const", 0, NodeLines(sym),
          <<AstNode(IF sym.type = "function" THEN "ArrowFunction"
                    ELSE "Literal", "", "", 0, NodeLines(sym), <<>>)>>)

\* the declaration's own name identifier is visited first, then the body
collectDependencies(sym) == Distinct(<<sym.name>> \o sym.refs)

\* the text of the declaration's line span
CodeOf(sym) == <<sym.type, sym.name, sym.body, sym.refs>>

JoinPath(root, rel) == <<root, rel>>
RelativePath(root, abs) == IF abs[1] = root THEN abs[2] ELSE abs

extractCodeChunksFromFile(t, absPath) ==
  LET rel  == RelativePath(ProjectRoot, absPath)
      syms == t[rel]
  IN  [i \in 1..Len(syms) |->
         [id           |-> <<rel, i>>,
          projectId    |-> ProjectId,
          path         |-> rel,
          code         |-> CodeOf(syms[i]),
          type         |-> getNodeType(DeclarationOf(syms[i])),
          name         |-> getNodeName(DeclarationOf(syms[i])),
          lineStart    |-> getNodePosition(syms, i).lineStart,
          lineEnd      |-> getNodePosition(syms, i).lineEnd,
          dependencies |-> collectDependencies(syms[i]),
          dependents   |-> <<>>,
          embedding    |-> NoEmbedding]]

\* ------------------------------------------------------------ file paths
\* A path as the single-file chunking tool meets it: whether it starts at
\* the file system root, and its segments.
Path(abs, segs) == [abs |-> abs, segs |-> segs]
Segments == {"repo", "other", "a.ts", ".."}
\* project.path
RootPath == Path(TRUE, <<"repo">>)

isAbsolute(p) == p.abs

\* path.normalize: ".." removes the segment before it; at the file system
\* root it is dropped, at the start of a relative path it stays
RECURSIVE NormalizeInto(_, _, _)
NormalizeInto(done, abs, segs) ==
  IF segs = <<>> THEN done
  ELSE IF Head(segs) # ".." THEN NormalizeInto(Append(done, Head(segs)), abs, Tail(segs))
  ELSE IF done # <<>> /\ done[Len(done)] # ".."
  THEN NormalizeInto(SubSeq(done, 1, Len(done) - 1), abs, Tail(segs))
  ELSE IF abs THEN NormalizeInto(done, abs, Tail(segs))
  ELSE NormalizeInto(Append(done, ".."), abs, Tail(segs))

normalize(p) == Path(p.abs, NormalizeInto(<<>>, p.abs, p.segs))

\* path.join(a, b)
join(a, b) == normalize(Path(a.abs, a.segs \o b.segs))

\* length of the longest common prefix of two segment lists
RECURSIVE CommonPrefix(_, _)
CommonPrefix(xs, ys) ==
  IF xs = <<>> \/ ys = <<>> THEN 0
  ELSE IF Head(xs) # Head(ys) THEN 0
  ELSE 1 + CommonPrefix(Tail(xs), Tail(ys))

\* path.relative(from, to) of two absolute paths: one ".." for every segment
\* of from that to does not share, then the rest of to
relative(from, to) ==
  LET f == normalize(from).segs
      t == normalize(to).segs
      n == CommonPrefix(f, t)
  IN  Path(FALSE, [i \in 1..(Len(f) - n) |-> ".."]
                    \o SubSeq(t, n + 1, Len(t)))

\* a readable source file: fs.readFile and the symbol request succeed
IsSourceFile(p) ==
  LET segs == normalize(p).segs
  IN  /\ segs # <<>>
      /\ segs[Len(segs)] = "a.ts"
      /\ \A i \in 1..(Len(segs) - 1) : segs[i] # "a.ts"

\* chunkFile(filePath): the paths of the chunks it returns
chunkFilePaths(filePath) ==
  LET absolutePath == IF isAbsolute(filePath) THEN filePath
                      ELSE join(RootPath, filePath)
  IN  IF IsSourceFile(absolutePath)
      THEN <<relative(RootPath, absolutePath)>>
      ELSE <<>>

\* createChunks.execute(args): the paths of the chunks given to
\* saveCodeChunks
createChunks(filePath) ==
  LET fullPath == IF isAbsolute(filePath) THEN filePath
                  ELSE join(RootPath, filePath)
  IN  [fullPath |-> fullPath, saved |-> chunkFilePaths(fullPath)]

\* ------------------------------------------------------ source fixtures
\* the statements a fixture file is made of
FunctionStatements ==
  {AstNode("FunctionDeclaration", n, "", 0, 2, <<>>) : n \in {"f", ""}}
ClassStatements ==
  {AstNode("ClassDeclaration", "C", "", 0, 1, <<>>),
   AstNode("ClassDeclaration", "C", "", 0, 3,
           <<AstNode("MethodDeclaration", "m", "", 1, 1, <<>>)>>)}
TypeStatements ==
  {AstNode("InterfaceDeclaration", "I", "", 0, 2, <<>>),
   AstNode("TypeAliasDeclaration", "T", "", 0, 1, <<>>)}
VariableStatements ==
  {AstNode("VariableDeclaration", "x", flags, 0, 1,
           <<AstNode(init, "", "", 0, 1, <<>>)>>) :
     flags \in {"const", "let", "var"},
     init \in {"Literal", "ArrowFunction", "FunctionExpression"}}
ExpressionStatements ==
  {AstNode("ExpressionStatement", "", "", 0, 1,
           <<AstNode(init, "", "", 0, 1, <<>>)>>) :
     init \in {"ArrowFunction", "FunctionExpression"}}
FixtureStatements ==
  FunctionStatements \cup ClassStatements \cup TypeStatements
    \cup VariableStatements \cup ExpressionStatements

\* -------------------------------------------- extraction from one file
\* A source file given as the list of its top-level statements.  The line
\* of statement i, line k of it, is <<i, k>>.
SourceLines(stmts) ==
  Flatten([i \in 1..Len(stmts) |-> [k \in 1..stmts[i].lines |-> <<i, k>>]])

RECURSIVE StartLine(_, _)
StartLine(stmts, i) ==
  IF i <= 1 THEN 0 ELSE StartLine(stmts, i - 1) + stmts[i - 1].lines

\* visit of extractCodeChunksFromFile: the chunk of the node, if it has a
\* type and a name, then the chunks of its children, depth first
RECURSIVE visit(_, _, _)
visit(node, parentStart, lines) ==
  LET type  == getNodeType(node)
      name  == getNodeName(node)
      start == parentStart + node.offset
      pos   == LinePosition(start, start + node.lines - 1)
      own   == IF type # "" /\ name # ""
               THEN <<[type |-> type, name |-> name,
                       lineStart |-> pos.lineStart, lineEnd |-> pos.lineEnd,
                       code |-> Slice(lines, pos.lineStart - 1, pos.lineEnd)]>>
               ELSE <<>>
  IN  own \o Flatten([c \in 1..Len(node.children) |->
                        visit(node.children[c], start, lines)])

extractFromSourceFile(stmts) ==
  Flatten([i \in 1..Len(stmts) |->
             visit(stmts[i], StartLine(stmts, i), SourceLines(stmts))])

\* The language server's answer to textDocument/documentSymbol, flattened:
\* one symbol per named declaration, parents before children, with its
\* SymbolKind number and its range in zero-based lines.
SymbolKindOf(node) ==
  IF node.kind = "ClassDeclaration" THEN 5
  ELSE IF node.kind = "MethodDeclaration" THEN 6
  ELSE IF node.kind = "InterfaceDeclaration" THEN 11
  ELSE IF node.kind = "FunctionDeclaration" THEN 12
  ELSE IF node.kind = "VariableDeclaration"
  THEN IF node.flags = "const" THEN 14 ELSE 13
  ELSE IF node.kind = "TypeAliasDeclaration" THEN 26
  ELSE 0

RECURSIVE flattenDocumentSymbols(_, _)
flattenDocumentSymbols(node, parentStart) ==
  LET start == parentStart + node.offset
      own   == IF node.name # "" /\ SymbolKindOf(node) # 0
               THEN <<[name |-> node.name, kind |-> SymbolKindOf(node),
                       startLine |-> start,
                       endLine |-> start + node.lines - 1]>>
               ELSE <<>>
  IN  own \o Flatten([c \in 1..Len(node.children) |->
                        flattenDocumentSymbols(node.children[c], start)])

relevantKinds == {5, 6, 9, 11, 12, 10, 3, 4, 26, 13}

filterSymbols(symbols) ==
  LET Relevant(symbol) == symbol.kind \in relevantKinds
  IN  SelectSeq(symbols, Relevant)

getSymbols(stmts) ==
  filterSymbols(Flatten([i \in 1..Len(stmts) |->
                           flattenDocumentSymbols(stmts[i],
                                                  StartLine(stmts, i))]))

extractCodeForSymbol(lines, symbol) ==
  Slice(lines, symbol.startLine, symbol.endLine + 1)

\* extractCodeChunksFromFile of the language-server based service; every
\* line of a fixture is long enough to pass the short-code test
extractFromSymbols(stmts) ==
  LET symbols == getSymbols(stmts)
  IN  [i \in 1..Len(symbols) |->
         [type |-> IF symbols[i].kind = 5 THEN "class"
                   ELSE IF symbols[i].kind \in {11, 10, 26} THEN "type"
                   ELSE "function",
          name |-> symbols[i].name,
          lineStart |-> symbols[i].startLine,
          lineEnd |-> symbols[i].endLine,
          code |-> extractCodeForSymbol(SourceLines(stmts), symbols[i])]]

\* ------------------------------------------------------------- embedding
\* A text is a sequence, the empty string is <<>>.
preprocessCodeForEmbedding(code, path) == <<path, code>>
EmbedText(text) == <<"vec", text>>
\* the texts generateBatchEmbeddings is tried on
SampleTexts == {<<>>, <<"a">>, <<"b">>}

\* slices of batchSize texts
RECURSIVE SplitBatches(_)
SplitBatches(validTexts) ==
  IF Len(validTexts) <= batchSize
  THEN <<validTexts>>
  ELSE <<SubSeq(validTexts, 1, batchSize)>>
         \o SplitBatches(SubSeq(validTexts, batchSize + 1, Len(validTexts)))

\* one embeddings.create request: one vector per input, in input order
embeddingsCreate(batch) == [i \in 1..Len(batch) |-> EmbedText(batch[i])]

generateBatchEmbeddings(texts) ==
  IF texts = <<>> THEN <<>>
  ELSE LET NonEmpty(text) == Len(text) > 0
           validTexts == SelectSeq(texts, NonEmpty)
       IN  IF validTexts = <<>> THEN <<>>
           ELSE LET batches == SplitBatches(validTexts)
                IN  Flatten([b \in 1..Len(batches) |->
                               embeddingsCreate(batches[b])])

\* chunks[i].embedding = embeddings[i], undefined past the end of the list
generateEmbeddingsForChunks(chunks) ==
  LET texts == [i \in 1..Len(chunks) |->
                  preprocessCodeForEmbedding(chunks[i].code, chunks[i].path)]
      embeddings == generateBatchEmbeddings(texts)
  IN  [i \in 1..Len(chunks) |->
         [chunks[i] EXCEPT !.embedding = IF i <= Len(embeddings)
                                         THEN embeddings[i]
                                         ELSE NoEmbedding]]

\* the request is rejected: generateEmbeddingsForChunks rethrows
EmbeddingFails(chunks, fault) ==
  \E i \in DOMAIN chunks : fault = EmbedFault(chunks[i].path)

\* ------------------------------------------- dependency reconciliation
\* Map.set in list order: a later chunk replaces an earlier one of its name
NameToChunkMap(chunks) ==
  [n \in {chunks[i].name : i \in DOMAIN chunks} |->
     CHOOSE i \in DOMAIN chunks :
       /\ chunks[i].name = n
       /\ \A j \in DOMAIN chunks : chunks[j].name = n => j <= i]

\* the inner loop over one chunk's raw dependency names
RECURSIVE ResolveChunk(_, _, _, _, _)
ResolveChunk(chunks, map, i, deps, resolvedDeps) ==
  IF deps = <<>>
  THEN [chunks EXCEPT ![i].dependencies = resolvedDeps]
  ELSE LET depName == Head(deps)
           found   == depName \in DOMAIN map
           t       == map[depName]
       IN  IF found /\ chunks[t].id # chunks[i].id
           THEN LET pushed ==
                      IF chunks[i].name \in Range(chunks[t].dependents)
                      THEN chunks
                      ELSE [chunks EXCEPT ![t].dependents =
                                            Append(@, chunks[i].name)]
                IN  ResolveChunk(pushed, map, i, Tail(deps),
                                 Append(resolvedDeps, depName))
           ELSE ResolveChunk(chunks, map, i, Tail(deps), resolvedDeps)

RECURSIVE ResolveFrom(_, _, _)
ResolveFrom(chunks, map, i) ==
  IF i > Len(chunks) THEN chunks
  ELSE ResolveFrom(
         ResolveChunk(chunks, map, i, chunks[i].dependencies, <<>>),
         map, i + 1)

processChunkDependencies(chunks) ==
  ResolveFrom(chunks, NameToChunkMap(chunks), 1)

\* ------------------------------------------------- dependency graph walk
\* analyzeChunkDependencyGraph: for every chunk, collectAllDeps of its name
\* with a visited set of its own.  The recursion is kept as a stack of
\* frames: a frame is a call that was just made ("call") or one that is in
\* its loop over the dependencies of its chunk ("loop").
GraphNames == {"a", "b", "c"}

NoWalk ==
  [i |-> 0, visited |-> {}, stack |-> <<>>,
   expanded |-> [n \in GraphNames |-> 0], total |-> 0, done |-> FALSE]

CallFrame(name) == [name |-> name, pc |-> "call", rest |-> <<>>, acc |-> <<>>]

\* the walk for the i-th chunk starts; after the last chunk the sum is logged
StartRoot(chunks, i, total) ==
  IF i > Len(chunks)
  THEN [NoWalk EXCEPT !.i = i, !.total = total, !.done = TRUE]
  ELSE [NoWalk EXCEPT !.i = i, !.total = total,
                      !.stack = <<CallFrame(chunks[i].name)>>]

\* variant: a name is taken out of the visited set when its call returns
visitedOnPathOnly(visited, name) == visited \ {name}

\* visited belongs to the root: a returning call leaves it as it is
visitedAfterReturn(visited, name) == visited

\* the top call returns value to its caller, or ends the walk of this root
ReturnFrom(w, chunks, value) ==
  LET depth == Len(w.stack)
  IN  IF depth = 1
      THEN StartRoot(chunks, w.i + 1, w.total + Len(value))
      ELSE [w EXCEPT !.stack = [SubSeq(w.stack, 1, depth - 1) EXCEPT
                                  ![depth - 1].acc = @ \o value]]

\* collectAllDeps(name) up to the loop
collectAllDepsEnter(w, chunks) ==
  LET depth == Len(w.stack)
      name  == w.stack[depth].name
      map   == NameToChunkMap(chunks)
      seen  == [w EXCEPT !.visited = @ \cup {name},
                         !.expanded[name] = @ + 1]
  IN  IF name \in w.visited THEN ReturnFrom(w, chunks, <<>>)
      ELSE IF name \notin DOMAIN map
      THEN ReturnFrom([seen EXCEPT !.visited = visitedAfterReturn(@, name)],
                      chunks, <<>>)
      ELSE [seen EXCEPT
              !.stack[depth] =
                 [name |-> name, pc |-> "loop",
                  rest |-> chunks[map[name]].dependencies,
                  acc  |-> chunks[map[name]].dependencies]]

\* one turn of the loop over targetChunk.dependencies, or the return
collectAllDepsLoop(w, chunks) ==
  LET depth == Len(w.stack)
      top   == w.stack[depth]
  IN  IF top.rest = <<>>
      THEN ReturnFrom([w EXCEPT !.visited = visitedAfterReturn(@, top.name)],
                      chunks, Distinct(top.acc))
      ELSE [w EXCEPT !.stack = Append([@ EXCEPT ![depth].rest = Tail(@)],
                                      CallFrame(Head(top.rest)))]

\* ------------------------------------------------------------- chunking
\* Each operation returns the chunks and the calls it made, in call order,
\* and in error the exception it raised ("" when it returned).
findTsFilesInDirectory(order) ==
  [i \in 1..Len(order) |-> JoinPath(ProjectRoot, order[i])]

\* variant: the per-file try/catch is missing, the first failure ends the walk
chunkDirectoryUncaught(t, order, fault) ==
  LET tsFiles   == findTsFilesInDirectory(order)
      allChunks == Flatten([i \in 1..Len(tsFiles) |->
                              extractCodeChunksFromFile(t, tsFiles[i])])
      extracts  == [i \in 1..Len(tsFiles) |-> "extract"]
  IN  IF \E i \in DOMAIN order : fault = ExtractFault(order[i])
      THEN [chunks |-> <<>>, trace |-> extracts, files |-> tsFiles,
            error |-> "extraction"]
      ELSE IF allChunks = <<>>
      THEN [chunks |-> allChunks, trace |-> extracts, files |-> tsFiles,
            error |-> ""]
      ELSE IF EmbeddingFails(allChunks, fault)
      THEN [chunks |-> <<>>, trace |-> Append(extracts, "embed"),
            files |-> tsFiles, error |-> "embedding"]
      ELSE [chunks |-> generateEmbeddingsForChunks(allChunks),
            trace  |-> Append(extracts, "embed"),
            files  |-> tsFiles, error |-> ""]

\* a file whose extraction raises is caught and contributes no chunks
chunkDirectory(t, order, fault) ==
  LET tsFiles   == findTsFilesInDirectory(order)
      allChunks == Flatten([i \in 1..Len(tsFiles) |->
                              IF fault = ExtractFault(order[i]) THEN <<>>
                              ELSE extractCodeChunksFromFile(t, tsFiles[i])])
      extracts  == [i \in 1..Len(tsFiles) |-> "extract"]
  IN  IF allChunks = <<>>
      THEN [chunks |-> allChunks, trace |-> extracts, files |-> tsFiles,
            error |-> ""]
      ELSE IF EmbeddingFails(allChunks, fault)
      THEN [chunks |-> <<>>, trace |-> Append(extracts, "embed"),
            files |-> tsFiles, error |-> "embedding"]
      ELSE [chunks |-> generateEmbeddingsForChunks(allChunks),
            trace  |-> Append(extracts, "embed"),
            files  |-> tsFiles, error |-> ""]

chunkEntireProject(t, order, fault) ==
  LET dir == chunkDirectory(t, order, fault)
  IN  IF dir.error = "" /\ dir.chunks # <<>>
      THEN [dir EXCEPT !.chunks = processChunkDependencies(dir.chunks),
                       !.trace  = Append(dir.trace, "reconcile")]
      ELSE dir

chunkFile(t, absPath, fault) ==
  LET chunks == extractCodeChunksFromFile(t, absPath)
  IN  IF fault = ExtractFault(RelativePath(ProjectRoot, absPath))
      THEN [chunks |-> <<>>, trace |-> <<"extract">>, error |-> "extraction"]
      ELSE IF chunks = <<>>
      THEN [chunks |-> chunks, trace |-> <<"extract">>, error |-> ""]
      ELSE IF EmbeddingFails(chunks, fault)
      THEN [chunks |-> <<>>, trace |-> <<"extract", "embed">>,
            error |-> "embedding"]
      ELSE [chunks |-> generateEmbeddingsForChunks(chunks),
            trace  |-> <<"extract", "embed">>, error |-> ""]

\* the loop of analyzeProject over the changed files: whatever chunkFile
\* raises is caught and the loop goes on with the next file
RECURSIVE ChunkFilesInto(_, _, _, _)
ChunkFilesInto(acc, t, filesToAnalyze, fault) ==
  IF filesToAnalyze = <<>> THEN acc
  ELSE ChunkFilesInto(
         [chunks |-> acc.chunks
                       \o chunkFile(t, Head(filesToAnalyze), fault).chunks,
          trace  |-> acc.trace
                       \o chunkFile(t, Head(filesToAnalyze), fault).trace,
          files  |-> Append(acc.files, Head(filesToAnalyze)),
          error  |-> ""],
         t, Tail(filesToAnalyze), fault)

chunkChangedFiles(t, filesToAnalyze, fault) ==
  ChunkFilesInto([chunks |-> <<>>, trace |-> <<>>, files |-> <<>>,
                  error |-> ""],
                 t, filesToAnalyze, fault)

\* ------------------------------------------------------- files of a run
\* A tracked file of the working copy, "<dir>/a<ext>", holding one
\* declaration f.
RepoFile(dir, ext) == [dir |-> dir, ext |-> ext]
RepoFiles ==
  {RepoFile(dir, ext) : dir \in {"src", "dist", "node_modules"},
                        ext \in {".ts", ".js", ".md"}}

IgnoredDirectories == {"node_modules", ".git", "dist", "build"}
SourceExtensions == {".ts", ".tsx", ".js", ".jsx"}

\* the test of the directory walk: not below an ignored directory, and a
\* source extension
isListed(file) ==
  file.dir \notin IgnoredDirectories /\ file.ext \in SourceExtensions

\* the files a full run extracts from
listedFiles(files) == {file \in files : isListed(file)}

\* the files an incremental run extracts from: filesToAnalyze = changedFiles
changedFilesToAnalyze(changedFiles) == changedFiles

\* the (path, name) keys extraction yields: a file that is no source text
\* yields no chunk
extractedKeys(files) ==
  {<<file, "f">> : file \in {g \in files : g.ext \in SourceExtensions}}

\* ------------------------------------------------------------ repository
\* The characters of a string.  The strings of the tree hold no "-" and are
\* kept whole; the two that do are a path and a symbol name as the language
\* server reports it for a member with a quoted name.
Chars(str) ==
  IF str = "x-y" THEN <<"x", "-", "y">>
  ELSE IF str = "y-z" THEN <<"y", "-", "z">>
  ELSE <<str>>

\* `${chunk.projectId}-${chunk.path}-${chunk.name}`
UniqueKey(chunk) ==
  Chars(chunk.projectId) \o <<"-">> \o Chars(chunk.path) \o <<"-">>
    \o Chars(chunk.name)

\* the first chunk of each key is kept
\* uniqueMap is kept as the list of its values, in insertion order
RECURSIVE DeduplicateInto(_, _)
DeduplicateInto(uniqueMap, chunks) ==
  IF chunks = <<>> THEN uniqueMap
  ELSE DeduplicateInto(
         IF \E i \in DOMAIN uniqueMap :
              UniqueKey(uniqueMap[i]) = UniqueKey(Head(chunks))
         THEN uniqueMap
         ELSE Append(uniqueMap, Head(chunks)),
         Tail(chunks))

deduplicateChunks(chunks) == DeduplicateInto(<<>>, chunks)

\* the target of the conflict clause: the unique index of the table
chunkUniqueIdx(row) == <<row.projectId, row.path, row.name>>

NewRow(v, now) ==
  [id |-> v.id, projectId |-> v.projectId, path |-> v.path, code |-> v.code,
   type |-> v.type, name |-> v.name, lineStart |-> v.lineStart,
   lineEnd |-> v.lineEnd, dependencies |-> v.dependencies,
   dependents |-> v.dependents, embedding |-> v.embedding,
   createdAt |-> now, updatedAt |-> now]

\* variant: no conflict target, every value is inserted as a new row
UpsertRowInsertOnly(st, v, now) == st \cup {NewRow(v, now)}

\* variant: the update on conflict leaves the stored dependents alone
UpsertRowKeepingDependents(st, v, now) ==
  LET hit == {r \in st : chunkUniqueIdx(r) = chunkUniqueIdx(v)}
  IN  IF hit = {}
      THEN st \cup {NewRow(v, now)}
      ELSE (st \ hit) \cup
           {[r EXCEPT !.code = v.code,
                      !.lineStart = v.lineStart,
                      !.lineEnd = v.lineEnd,
                      !.embedding = v.embedding,
                      !.dependencies = v.dependencies,
                      !.updatedAt = now] : r \in hit}

\* insert ... on conflict (project_id, path, name) do update set ...
UpsertRow(st, v, now) ==
  LET hit == {r \in st : chunkUniqueIdx(r) = chunkUniqueIdx(v)}
  IN  IF hit = {}
      THEN st \cup {NewRow(v, now)}
      ELSE (st \ hit) \cup
           {[r EXCEPT !.code = v.code,
                      !.lineStart = v.lineStart,
                      !.lineEnd = v.lineEnd,
                      !.embedding = v.embedding,
                      !.dependencies = v.dependencies,
                      !.dependents = v.dependents,
                      !.updatedAt = now] : r \in hit}

RECURSIVE UpsertAll(_, _, _)
UpsertAll(st, values, now) ==
  IF values = <<>> THEN st
  ELSE UpsertAll(UpsertRow(st, Head(values), now), Tail(values), now)

\* variant: the rows of the project are deleted before the insert
saveCodeChunksReplacing(st, chunks, now) ==
  IF chunks = <<>> THEN st
  ELSE LET uniqueChunks == deduplicateChunks(chunks)
           chunkValues  == [i \in 1..Len(uniqueChunks) |->
                              [uniqueChunks[i] EXCEPT !.id = <<now, i>>]]
           kept == {r \in st : \A i \in DOMAIN chunks :
                                  r.projectId # chunks[i].projectId}
       IN  UpsertAll(kept, chunkValues, now)

saveCodeChunks(st, chunks, now) ==
  IF chunks = <<>> THEN st
  ELSE LET uniqueChunks == deduplicateChunks(chunks)
           chunkValues  == [i \in 1..Len(uniqueChunks) |->
                              [uniqueChunks[i] EXCEPT !.id = <<now, i>>]]
       IN  UpsertAll(st, chunkValues, now)

getProjectChunkCount(st, projectId) ==
  Cardinality({r \in st : r.projectId = projectId})

\* ------------------------------------------------------------ GitService
\* A revision is named by its number in the commit sequence.
getCurrentCommitHash(git, hd, revOk) ==
  IF ~git THEN Null
  ELSE IF revOk THEN hd ELSE Null

\* oldTree and newTree are the trees of the two commits given to git diff
getChangedFiles(git, oldTree, newTree, diffOk) ==
  IF ~git THEN <<>>
  ELSE IF ~diffOk THEN <<>>
  ELSE LET Differs(f) == oldTree[f] # newTree[f]
           output == SelectSeq(SortedFiles, Differs)
       IN  [i \in 1..Len(output) |-> JoinPath(ProjectRoot, output[i])]

\* variant: a project without a baseline is reported as unchanged
getProjectChangedFilesNoFirstRun(proj, git, hd, t, bt, revOk, diffOk) ==
  LET currentHash == getCurrentCommitHash(git, hd, revOk)
      lastHash    == proj.lastCommitHash
      changed     == getChangedFiles(git, bt, t, diffOk)
  IN  IF ~git \/ currentHash = Null
      THEN [changedFiles |-> <<>>, currentHash |-> Null, hasChanges |-> FALSE]
      ELSE IF lastHash = Null \/ lastHash = currentHash
      THEN [changedFiles |-> <<>>, currentHash |-> currentHash,
            hasChanges |-> FALSE]
      ELSE [changedFiles |-> changed, currentHash |-> currentHash,
            hasChanges |-> Len(changed) > 0]

getProjectChangedFiles(proj, git, hd, t, bt, revOk, diffOk) ==
  LET currentHash == getCurrentCommitHash(git, hd, revOk)
      lastHash    == proj.lastCommitHash
      changed     == getChangedFiles(git, bt, t, diffOk)
  IN  IF ~git
      THEN [changedFiles |-> <<>>, currentHash |-> Null, hasChanges |-> FALSE]
      ELSE IF currentHash = Null
      THEN [changedFiles |-> <<>>, currentHash |-> Null, hasChanges |-> FALSE]
      ELSE IF lastHash = Null
      THEN [changedFiles |-> <<>>, currentHash |-> currentHash,
            hasChanges |-> TRUE]
      ELSE IF lastHash = currentHash
      THEN [changedFiles |-> <<>>, currentHash |-> currentHash,
            hasChanges |-> FALSE]
      ELSE [changedFiles |-> changed, currentHash |-> currentHash,
            hasChanges |-> Len(changed) > 0]

\* -------------------------------------------------------- ProjectService
\* variant: the baseline test is inverted
ShouldSkipWithoutBaseline(hasChanges, forceRefresh, lastCommitHash) ==
  ~hasChanges /\ ~forceRefresh /\ lastCommitHash = Null

\* variant: the forced refresh is not consulted
ShouldSkipIgnoringForce(hasChanges, forceRefresh, lastCommitHash) ==
  ~hasChanges /\ lastCommitHash # Null

\* "no changes, no forced refresh and a baseline": skip the analysis
ShouldSkip(hasChanges, forceRefresh, lastCommitHash) ==
  ~hasChanges /\ ~forceRefresh /\ lastCommitHash # Null

\* variant: the negation of the forced refresh is lost
SelectFilesToAnalyzeWhenForced(hasChanges, forceRefresh, lastCommitHash, changedFiles) ==
  IF forceRefresh /\ hasChanges /\ lastCommitHash # Null
  THEN Some(changedFiles)
  ELSE None

\* the changed-file list is used only for an unforced run with a baseline
SelectFilesToAnalyze(hasChanges, forceRefresh, lastCommitHash, changedFiles) ==
  IF ~forceRefresh /\ hasChanges /\ lastCommitHash # Null
  THEN Some(changedFiles)
  ELSE None

NoRun ==
  [mode |-> "none", force |-> FALSE, isGit |-> FALSE, baseline |-> Null,
   head |-> 0, changedFiles |-> <<>>, currentHash |-> Null,
   hasChanges |-> FALSE, files |-> <<>>, trace |-> <<>>, chunks |-> <<>>,
   totalChunks |-> 0, fault |-> NoFault, error |-> ""]

\* analyzeProject: the new store, the new lastCommitHash and what the run
\* did.  A run that raises has error set; it leaves what it wrote before.
analyzeProject(proj, st, git, hd, t, bt, now, forceRefresh, revOk, diffOk, order, fault) ==
  LET det == getProjectChangedFiles(proj, git, hd, t, bt, revOk, diffOk)
      changedFiles      == IF git THEN det.changedFiles ELSE <<>>
      currentCommitHash == IF git THEN det.currentHash ELSE Null
      skip == git /\ ShouldSkip(det.hasChanges, forceRefresh,
                                proj.lastCommitHash)
      filesToAnalyze ==
        IF git
        THEN SelectFilesToAnalyze(det.hasChanges, forceRefresh,
                                  proj.lastCommitHash, changedFiles)
        ELSE None
      incremental == filesToAnalyze # None /\ ~forceRefresh
      res == IF incremental
             THEN chunkChangedFiles(t, filesToAnalyze[1], fault)
             ELSE chunkEntireProject(t, order, fault)
      base == [mode |-> "none", force |-> forceRefresh, isGit |-> git,
               baseline |-> proj.lastCommitHash, head |-> hd,
               changedFiles |-> changedFiles,
               currentHash |-> currentCommitHash,
               hasChanges |-> git /\ det.hasChanges,
               files |-> <<>>, trace |-> <<>>, chunks |-> <<>>,
               totalChunks |-> 0, fault |-> fault, error |-> ""]
      ran  == [base EXCEPT
                 !.mode = IF incremental THEN "incremental" ELSE "full",
                 !.files = res.files,
                 !.trace = res.trace,
                 !.chunks = res.chunks]
  IN  IF skip
      THEN LET update == currentCommitHash # Null
                         /\ currentCommitHash # proj.lastCommitHash
           IN  IF update /\ fault = HashFault
               THEN [store |-> st,
                     lastCommitHash |-> proj.lastCommitHash,
                     run |-> [base EXCEPT !.mode = "skip",
                                          !.trace = <<"updateHash">>,
                                          !.error = "persistence"]]
               ELSE [store |-> st,
                     lastCommitHash |-> IF update THEN currentCommitHash
                                        ELSE proj.lastCommitHash,
                     run |-> [base EXCEPT
                                !.mode = "skip",
                                !.trace = IF update THEN <<"updateHash">>
                                          ELSE <<>>,
                                !.totalChunks =
                                   getProjectChunkCount(st, proj.id)]]
      ELSE IF res.error # ""
      THEN [store |-> st,
            lastCommitHash |-> proj.lastCommitHash,
            run |-> [ran EXCEPT !.error = res.error]]
      ELSE IF res.chunks # <<>> /\ fault = SaveFault
      THEN [store |-> st,
            lastCommitHash |-> proj.lastCommitHash,
            run |-> [ran EXCEPT !.trace = Append(@, "persist"),
                                !.error = "persistence"]]
      ELSE IF currentCommitHash # Null /\ fault = HashFault
      THEN [store |-> saveCodeChunks(st, res.chunks, now),
            lastCommitHash |-> proj.lastCommitHash,
            run |-> [ran EXCEPT !.trace = @ \o <<"persist", "updateHash">>,
                                !.error = "persistence"]]
      ELSE [store |-> saveCodeChunks(st, res.chunks, now),
            lastCommitHash |-> IF currentCommitHash # Null
                               THEN currentCommitHash
                               ELSE proj.lastCommitHash,
            run |-> [ran EXCEPT
                       !.trace = @ \o (IF currentCommitHash # Null
                                       THEN <<"persist", "updateHash">>
                                       ELSE <<"persist">>),
                       !.totalChunks = Len(res.chunks)]]

\* -------------------------------------------------------------- LspClient
\* attempts getSymbols makes for one file
maxRetries == 3

\* One getSymbols call per file; all calls share the client.  serverDocs are
\* the documents the running server process was told of (didOpen), pending
\* tells whether the server a request was written to still runs, cannotStart
\* whether spawning a server fails from now on.
NoLsp ==
  [server |-> FALSE, isInitialized |-> FALSE, openDocuments |-> {},
   serverDocs |-> {}, failing |-> {}, cannotStart |-> FALSE,
   call |-> [f \in Files |-> [pc |-> "off", retryCount |-> 0, attempts |-> 0,
                              pending |-> FALSE, result |-> "none"]]]

\* stop() up to its wait for the answer to the shutdown request: every open
\* document is closed and the set is cleared
stopShutdown(l) == [l EXCEPT !.openDocuments = {}, !.serverDocs = {}]

\* stop() after that wait: the server process is killed; the requests
\* written to it are never answered
stopKill(l) ==
  [l EXCEPT !.server = FALSE,
            !.isInitialized = FALSE,
            !.serverDocs = {},
            !.call = [f \in Files |-> [@[f] EXCEPT !.pending = FALSE]]]

\* stop() where it does not wait: without a server it returns at once, with
\* a server that is not initialized it sends no shutdown request
stop(l) ==
  IF ~l.server THEN [l EXCEPT !.isInitialized = FALSE]
  ELSE stopKill(stopShutdown(l))

\* start(): a running, initialized server is reused; a start that fails
\* leaves no server
start(l) ==
  IF l.isInitialized /\ l.server THEN l
  ELSE IF l.cannotStart THEN stopKill(l)
  ELSE [l EXCEPT !.server = TRUE, !.isInitialized = TRUE, !.serverDocs = {}]

\* openDocument(uri): a document that is in openDocuments is not sent again
openDocument(l, f) ==
  IF f \in l.openDocuments THEN l
  ELSE [l EXCEPT !.openDocuments = @ \cup {f}, !.serverDocs = @ \cup {f}]

closeDocument(l, f) ==
  IF f \notin l.openDocuments THEN l
  ELSE [l EXCEPT !.openDocuments = @ \ {f}, !.serverDocs = @ \ {f}]

\* variant: a failed attempt is not counted
afterFailedAttemptUncounted(c) ==
  [c EXCEPT !.pending = FALSE, !.pc = "try"]

\* either catch block of the retry loop: the attempt is counted, and after
\* the last one the loop ends and getSymbols returns the empty list
afterFailedAttempt(c) ==
  LET last == c.retryCount + 1 >= maxRetries
  IN  [c EXCEPT !.retryCount = @ + 1,
                !.pending = FALSE,
                !.pc = IF last THEN "done" ELSE "try",
                !.result = IF last THEN "empty" ELSE "none"]

\* ----------------------------------------------------------------- state
NoProject == [id |-> "", path |-> "", lastCommitHash |-> Null]

VARIABLES
  head,      \* the number (hash) of the HEAD commit of the working copy
  tree,      \* the tree of the HEAD commit: file -> list of declarations
  baseTree,  \* the tree of the commit that project.lastCommitHash names
  project,   \* the project row, NoProject before the project is created
  store,     \* the rows of the code_chunks table
  runs,      \* number of analyze calls so far (the clock of the store)
  run,       \* what the last analyze call did
  arg,       \* the argument of a function that is applied on its own
  ret,       \* None, or Some(result) once the function was applied to arg
  lsp,       \* the LspClient and the getSymbols calls running on it
  walk       \* the position of analyzeChunkDependencyGraph in its walk

vars == <<head, tree, baseTree, project, store, runs, run, arg, ret, lsp, walk>>

Init ==
  /\ head = 1
  /\ tree = InitTree
  /\ baseTree = InitTree
  /\ project = NoProject
  /\ store = {}
  /\ runs = 0
  /\ run = NoRun
  /\ arg = <<>>
  /\ ret = None
  /\ lsp = NoLsp
  /\ walk = NoWalk

\* ----------------------------------------------------------- environment
\* The model stops after MaxRuns runs: no commit follows the last run.
Commit(t) ==
  /\ head < MaxRev
  /\ runs < MaxRuns
  /\ head' = head + 1
  /\ tree' = t
  /\ UNCHANGED <<baseTree, project, store, runs, run, arg, ret, lsp, walk>>

\* the body of a declaration is edited
EditBody ==
  \E f \in Files : \E i \in DOMAIN tree[f] : \E b \in Bodies :
    /\ b # tree[f][i].body
    /\ Commit([tree EXCEPT ![f][i].body = b])

\* a const binding gets, or loses, a function-like initializer
ChangeKind ==
  \E f \in Files : \E i \in DOMAIN tree[f] :
    Commit([tree EXCEPT ![f][i].type =
              IF @ = "function" THEN "constant" ELSE "function"])

\* a declaration is appended to a file; its name may already be declared
AddSymbol ==
  \E f \in Files : \E n \in Names :
    Commit([tree EXCEPT ![f] =
              Append(@, [name |-> n, type |-> "function", body |-> 1,
                         refs |-> <<>>])])

RemoveSymbol ==
  \E f \in Files :
    /\ tree[f] # <<>>
    /\ Commit([tree EXCEPT ![f] = SubSeq(@, 1, Len(@) - 1)])

\* a commit that touches no source file
EmptyCommit == Commit(tree)

\* ------------------------------------------------------------ operations
\* Whether the root has a .git directory (isGit) and whether a git command
\* succeeds (revOk, diffOk) are facts of the environment at the time of the
\* call; createProject refuses a root that is no git repository.
CreateProject ==
  \E isGit \in BOOLEAN, revOk \in BOOLEAN :
    /\ project = NoProject
    /\ runs < MaxRuns
    /\ isGit
    /\ project' = [id |-> ProjectId, path |-> ProjectRoot,
                   lastCommitHash |->
                     getCurrentCommitHash(isGit, head, revOk)]
    /\ baseTree' = tree
    /\ UNCHANGED <<head, tree, store, runs, run, arg, ret, lsp, walk>>

\* The outcome of a git command and the listing order of the directory walk
\* are chosen only where the call is made.
Analyze ==
  /\ project # NoProject
  /\ runs < MaxRuns
  /\ \E forceRefresh \in BOOLEAN, isGit \in BOOLEAN :
     \E revOk \in (IF isGit THEN BOOLEAN ELSE {TRUE}) :
     \E diffOk \in (IF /\ isGit /\ revOk
                        /\ project.lastCommitHash \notin {Null, head}
                     THEN BOOLEAN ELSE {TRUE}) :
     \E r \in {analyzeProject(project, store, isGit, head, tree, baseTree,
                               runs + 1, forceRefresh, revOk, diffOk, order,
                               NoFault) :
                  order \in FileOrders} :
       /\ store' = r.store
       /\ project' = [project EXCEPT !.lastCommitHash = r.lastCommitHash]
       /\ baseTree' = IF r.lastCommitHash = head THEN tree ELSE baseTree
       /\ run' = r.run
       /\ runs' = runs + 1
       /\ UNCHANGED <<head, tree, arg, ret, lsp, walk>>

\* analyzeProject while git works and one collaborator call fails
AnalyzeWithFault ==
  /\ project # NoProject
  /\ runs < MaxRuns
  /\ \E forceRefresh \in BOOLEAN, fault \in Faults :
     \E r \in {analyzeProject(project, store, TRUE, head, tree, baseTree,
                               runs + 1, forceRefresh, TRUE, TRUE, order,
                               fault) :
                  order \in FileOrders} :
       /\ store' = r.store
       /\ project' = [project EXCEPT !.lastCommitHash = r.lastCommitHash]
       /\ baseTree' = IF r.lastCommitHash = head THEN tree ELSE baseTree
       /\ run' = r.run
       /\ runs' = runs + 1
       /\ UNCHANGED <<head, tree, arg, ret, lsp, walk>>

Next ==
  \/ EditBody
  \/ ChangeKind
  \/ AddSymbol
  \/ RemoveSymbol
  \/ EmptyCommit
  \/ CreateProject
  \/ Analyze

Spec == Init /\ [][Next]_vars

\* the runs of Spec and the runs in which a collaborator call fails
FaultNext ==
  \/ EditBody
  \/ CreateProject
  \/ Analyze
  \/ AnalyzeWithFault

FaultSpec == Init /\ [][FaultNext]_vars

\* chunkDirectory of the language-server based service: getSymbols runs for
\* all files at once on one client.  The requests for the files in failing
\* are answered with an error or not at all.
LspInit ==
  /\ head = 1
  /\ tree = InitTree
  /\ baseTree = InitTree
  /\ project = NoProject
  /\ store = {}
  /\ runs = 0
  /\ run = NoRun
  /\ arg = <<>>
  /\ ret = None
  /\ \E bad \in SUBSET Files, broken \in BOOLEAN :
       lsp = [start(NoLsp) EXCEPT
                !.failing = bad,
                !.cannotStart = broken,
                !.call = [f \in Files |-> [@[f] EXCEPT !.pc = "try"]]]
  /\ walk = NoWalk

LspFrame == UNCHANGED <<head, tree, baseTree, project, store, runs, run, arg, ret, walk>>

\* the start of an attempt: a server that is ready gets the document, one
\* that is not is stopped first
getSymbolsOpen(f) ==
  /\ lsp.call[f].pc = "try"
  /\ LET counted == [lsp EXCEPT !.call[f].attempts = @ + 1]
     IN  IF lsp.isInitialized /\ lsp.server
         THEN lsp' = [openDocument(counted, f) EXCEPT !.call[f].pc = "opened"]
         ELSE lsp' = [stop(counted) EXCEPT !.call[f].pc = "starting"]
  /\ LspFrame

\* the server is started for the attempt; a start that fails ends the attempt
getSymbolsStart(f) ==
  /\ lsp.call[f].pc = "starting"
  /\ LET started == start(lsp)
     IN  IF started.server
         THEN lsp' = [openDocument(started, f) EXCEPT !.call[f].pc = "opened"]
         ELSE lsp' = [started EXCEPT !.call[f] = afterFailedAttempt(@)]
  /\ LspFrame

\* the documentSymbol request is written; writing fails without a server
getSymbolsRequest(f) ==
  /\ lsp.call[f].pc = "opened"
  /\ IF lsp.server
     THEN lsp' = [lsp EXCEPT !.call[f].pc = "wait", !.call[f].pending = TRUE]
     ELSE lsp' = [lsp EXCEPT !.call[f] = afterFailedAttempt(@)]
  /\ LspFrame

\* the response arrives: the document is closed, the symbols are returned
getSymbolsResponse(f) ==
  /\ lsp.call[f].pc = "wait"
  /\ lsp.call[f].pending
  /\ f \notin lsp.failing
  /\ f \in lsp.serverDocs
  /\ lsp' = [closeDocument(lsp, f) EXCEPT !.call[f].pc = "done",
                                          !.call[f].pending = FALSE,
                                          !.call[f].result = "symbols"]
  /\ LspFrame

\* an error response or the timeout: the document is closed and the server
\* is stopped
getSymbolsError(f) ==
  /\ lsp.call[f].pc = "wait"
  /\ f \in lsp.failing \/ ~lsp.call[f].pending \/ f \notin lsp.serverDocs
  /\ LET closed == closeDocument(lsp, f)
     IN  IF closed.server /\ closed.isInitialized
         THEN lsp' = [stopShutdown(closed) EXCEPT !.call[f].pc = "stopping"]
         ELSE lsp' = [stop(closed) EXCEPT !.call[f].pc = "restarting"]
  /\ LspFrame

\* stop() goes on after its wait for the shutdown answer
getSymbolsStopped(f) ==
  /\ lsp.call[f].pc = "stopping"
  /\ lsp' = [stopKill(lsp) EXCEPT !.call[f].pc = "restarting"]
  /\ LspFrame

\* the server is started again and the attempt is counted
getSymbolsRestart(f) ==
  /\ lsp.call[f].pc = "restarting"
  /\ lsp' = [start(lsp) EXCEPT !.call[f] = afterFailedAttempt(@)]
  /\ LspFrame

LspNext ==
  \E f \in Files :
    \/ getSymbolsOpen(f)
    \/ getSymbolsStart(f)
    \/ getSymbolsRequest(f)
    \/ getSymbolsResponse(f)
    \/ getSymbolsError(f)
    \/ getSymbolsStopped(f)
    \/ getSymbolsRestart(f)

LspSpec == LspInit /\ [][LspNext]_vars

\* every call goes on until it returns: timers and responses do arrive
LspLiveSpec == LspSpec /\ WF_vars(LspNext)

\* generateBatchEmbeddings applied to every list of at most MaxTexts texts
RECURSIVE SeqsUpTo(_, _)
SeqsUpTo(S, n) ==
  IF n = 0 THEN {<<>>}
  ELSE SeqsUpTo(S, n - 1)
         \cup {Append(q, x) : q \in SeqsUpTo(S, n - 1), x \in S}

EmbedInit ==
  /\ head = 1
  /\ tree = InitTree
  /\ baseTree = InitTree
  /\ project = NoProject
  /\ store = {}
  /\ runs = 0
  /\ run = NoRun
  /\ arg \in SeqsUpTo(SampleTexts, MaxTexts)
  /\ ret = None
  /\ lsp = NoLsp
  /\ walk = NoWalk

EmbedBatch ==
  /\ ret = None
  /\ ret' = Some(generateBatchEmbeddings(arg))
  /\ UNCHANGED <<head, tree, baseTree, project, store, runs, run, arg, lsp, walk>>

EmbedSpec == EmbedInit /\ [][EmbedBatch]_vars

\* extractCodeChunksFromFile applied to every fixture file of at most
\* MaxStatements statements, by the compiler based service and by the
\* language-server based one
ExtractInit ==
  /\ head = 1
  /\ tree = InitTree
  /\ baseTree = InitTree
  /\ project = NoProject
  /\ store = {}
  /\ runs = 0
  /\ run = NoRun
  /\ arg \in SeqsUpTo(FixtureStatements, MaxStatements)
  /\ ret = None
  /\ lsp = NoLsp
  /\ walk = NoWalk

ExtractWithCompiler ==
  /\ ret = None
  /\ ret' = Some([by |-> "compiler", chunks |-> extractFromSourceFile(arg)])
  /\ UNCHANGED <<head, tree, baseTree, project, store, runs, run, arg, lsp, walk>>

ExtractWithSymbols ==
  /\ ret = None
  /\ ret' = Some([by |-> "symbols", chunks |-> extractFromSymbols(arg)])
  /\ UNCHANGED <<head, tree, baseTree, project, store, runs, run, arg, lsp, walk>>

ExtractNext == ExtractWithCompiler \/ ExtractWithSymbols

ExtractSpec == ExtractInit /\ [][ExtractNext]_vars

\* the single-file chunking tool applied to every path of at most
\* MaxSegments segments
ToolInit ==
  /\ head = 1
  /\ tree = InitTree
  /\ baseTree = InitTree
  /\ project = NoProject
  /\ store = {}
  /\ runs = 0
  /\ run = NoRun
  /\ arg \in {Path(abs, segs) : abs \in BOOLEAN,
                                segs \in SeqsUpTo(Segments, MaxSegments)}
  /\ ret = None
  /\ lsp = NoLsp
  /\ walk = NoWalk

CreateChunks ==
  /\ ret = None
  /\ ret' = Some(createChunks(arg))
  /\ UNCHANGED <<head, tree, baseTree, project, store, runs, run, arg, lsp, walk>>

ToolSpec == ToolInit /\ [][CreateChunks]_vars

\* analyzeChunkDependencyGraph on every list of at most MaxChunks chunks
\* whose dependencies are names with and without a chunk
DependencyLists ==
  {deps \in SeqsUpTo(GraphNames, 2) :
     \A i \in DOMAIN deps : \A j \in DOMAIN deps : deps[i] = deps[j] => i = j}

GraphChunks ==
  {[name |-> n, dependencies |-> deps] :
     n \in {"a", "b"}, deps \in DependencyLists}

WalkInit ==
  /\ head = 1
  /\ tree = InitTree
  /\ baseTree = InitTree
  /\ project = NoProject
  /\ store = {}
  /\ runs = 0
  /\ run = NoRun
  /\ arg \in SeqsUpTo(GraphChunks, MaxChunks)
  /\ ret = None
  /\ lsp = NoLsp
  /\ walk = StartRoot(arg, 1, 0)

WalkFrame == UNCHANGED <<head, tree, baseTree, project, store, runs, run, arg, ret, lsp>>

CollectAllDepsEnter ==
  /\ ~walk.done
  /\ walk.stack[Len(walk.stack)].pc = "call"
  /\ walk' = collectAllDepsEnter(walk, arg)
  /\ WalkFrame

CollectAllDepsLoop ==
  /\ ~walk.done
  /\ walk.stack[Len(walk.stack)].pc = "loop"
  /\ walk' = collectAllDepsLoop(walk, arg)
  /\ WalkFrame

WalkNext == CollectAllDepsEnter \/ CollectAllDepsLoop

\* the walk is one synchronous pass: it always takes its next step
WalkSpec == WalkInit /\ [][WalkNext]_vars /\ WF_vars(WalkNext)

\* deduplicateChunks applied to every list of at most MaxBatch chunks of one
\* project whose paths and names may hold the separator
BatchChunks ==
  {[projectId |-> ProjectId, path |-> path, name |-> name, code |-> code] :
     path \in {"x", "x-y"}, name \in {"y-z", "z"}, code \in Bodies}

DedupInit ==
  /\ head = 1
  /\ tree = InitTree
  /\ baseTree = InitTree
  /\ project = NoProject
  /\ store = {}
  /\ runs = 0
  /\ run = NoRun
  /\ arg \in SeqsUpTo(BatchChunks, MaxBatch)
  /\ ret = None
  /\ lsp = NoLsp
  /\ walk = NoWalk

Deduplicate ==
  /\ ret = None
  /\ ret' = Some(deduplicateChunks(arg))
  /\ UNCHANGED <<head, tree, baseTree, project, store, runs, run, arg, lsp, walk>>

DedupSpec == DedupInit /\ [][Deduplicate]_vars

\* processChunkDependencies applied to every list of at most MaxChunks
\* chunks, in every order of the list
Listed(chunks, k) ==
  [id |-> k, name |-> chunks[k].name,
   dependencies |-> chunks[k].dependencies, dependents |-> <<>>]

Orders(n) ==
  {p \in [1..n -> 1..n] : \A i \in 1..n : \A j \in 1..n : p[i] = p[j] => i = j}

ReconcileInit ==
  /\ head = 1
  /\ tree = InitTree
  /\ baseTree = InitTree
  /\ project = NoProject
  /\ store = {}
  /\ runs = 0
  /\ run = NoRun
  /\ arg \in SeqsUpTo(GraphChunks, MaxChunks)
  /\ ret = None
  /\ lsp = NoLsp
  /\ walk = NoWalk

Reconcile ==
  /\ ret = None
  /\ \E p \in Orders(Len(arg)) :
       ret' = Some(processChunkDependencies(
                     [i \in 1..Len(arg) |-> Listed(arg, p[i])]))
  /\ UNCHANGED <<head, tree, baseTree, project, store, runs, run, arg, lsp, walk>>

ReconcileSpec == ReconcileInit /\ [][Reconcile]_vars

\* an incremental run for every set of changed files, next to the full run
\* of the same revision
ScopeInit ==
  /\ head = 1
  /\ tree = InitTree
  /\ baseTree = InitTree
  /\ project = NoProject
  /\ store = {}
  /\ runs = 0
  /\ run = NoRun
  /\ arg \in SUBSET RepoFiles
  /\ ret = None
  /\ lsp = NoLsp
  /\ walk = NoWalk

AnalyzeChanged ==
  /\ ret = None
  /\ ret' = Some([processed |-> changedFilesToAnalyze(arg),
                  persisted |-> extractedKeys(changedFilesToAnalyze(arg)),
                  full      |-> extractedKeys(listedFiles(RepoFiles))])
  /\ UNCHANGED <<head, tree, baseTree, project, store, runs, run, arg, lsp, walk>>

ScopeSpec == ScopeInit /\ [][AnalyzeChanged]_vars

\* ================================================================ claims
AllFiles == {JoinPath(ProjectRoot, f) : f \in Files}
Ran == run.mode \in {"full", "incremental"}
\* the keys of the chunks the last run handed to saveCodeChunks
TouchedKeys == {chunkUniqueIdx(run.chunks[i]) : i \in DOMAIN run.chunks}
\* the stored rows the last run wrote
TouchedRows == {r \in store : chunkUniqueIdx(r) \in TouchedKeys}
\* the chunk of a key that survives the in-batch deduplication
FirstWithKey(k) ==
  run.chunks[CHOOSE i \in DOMAIN run.chunks :
               /\ chunkUniqueIdx(run.chunks[i]) = k
               /\ \A j \in DOMAIN run.chunks :
                    chunkUniqueIdx(run.chunks[j]) = k => i <= j]
Before(trace, a, b) ==
  \A j \in DOMAIN trace :
    trace[j] = b => \E i \in DOMAIN trace : i < j /\ trace[i] = a

\* C1: after a full run, for all chunks A and B the run produced, B.name is
\* in A.dependencies exactly when A.name is in B.dependents, also when two
\* chunks share a name.
C1_TransposeAfterFullRun ==
  run.mode = "full" =>
    \A a \in DOMAIN run.chunks : \A b \in DOMAIN run.chunks :
      (run.chunks[b].name \in Range(run.chunks[a].dependencies))
        <=> (run.chunks[a].name \in Range(run.chunks[b].dependents))

\* C2: after an incremental run, for all rows A and B the run wrote, B.name
\* is in A's stored dependencies exactly when A.name is in B's stored
\* dependents.
C2_TransposeAmongTouched ==
  run.mode = "incremental" =>
    \A a \in TouchedRows : \A b \in TouchedRows :
      (b.name \in Range(a.dependencies)) <=> (a.name \in Range(b.dependents))

\* C3: after an incremental run, a row B the run wrote does not list among
\* its dependents a chunk A of a file the run did not process, although A's
\* stored dependencies name B.
C3_NoDependentFromUnchangedFile ==
  run.mode = "incremental" =>
    \A b \in TouchedRows : \A a \in store :
      (/\ JoinPath(ProjectRoot, a.path) \notin Range(run.files)
       /\ b.name \in Range(a.dependencies))
        => a.name \notin Range(b.dependents)

C3_Witness ==
  /\ run.mode = "incremental"
  /\ \E b \in TouchedRows : \E a \in store :
       /\ JoinPath(ProjectRoot, a.path) \notin Range(run.files)
       /\ b.name \in Range(a.dependencies)
       /\ b.updatedAt > b.createdAt

\* C4: in a full and in an incremental run with a non-empty chunk list, the
\* calls are made in the order embedding, reconciliation, persistence: the
\* chunks are persisted only after the reconciler ran, and it ran after the
\* embedding.
C4_EmbedReconcilePersist ==
  (Ran /\ run.chunks # <<>>) =>
    /\ "persist" \in Range(run.trace)
    /\ Before(run.trace, "reconcile", "persist")
    /\ Before(run.trace, "embed", "reconcile")

\* C5: every name in a stored row's dependencies or dependents is the name
\* of another stored row of the same project.
C5_EdgesResolvable ==
  \A r \in store :
    \A n \in Range(r.dependencies) \cup Range(r.dependents) :
      \E o \in store : o # r /\ o.projectId = r.projectId /\ o.name = n

\* C6: the store holds at most one row per (project, path, name).
C6_UniqueKey ==
  \A r1 \in store : \A r2 \in store :
    chunkUniqueIdx(r1) = chunkUniqueIdx(r2) => r1 = r2

\* a symbol was indexed again after its body was edited
C6_Witness ==
  \E r \in store : r.updatedAt > r.createdAt /\ r.code[3] = 2

\* C7: a row that existed before the last run and was written by it carries
\* the new chunk's code, type, lines, embedding, dependencies and dependents,
\* and keeps the id and createdAt of its first insert.
C7_LastWriteWins ==
  Ran =>
    \A r \in TouchedRows :
      r.createdAt < runs =>
        LET c == FirstWithKey(chunkUniqueIdx(r))
        IN  /\ r.code = c.code
            /\ r.type = c.type
            /\ r.lineStart = c.lineStart
            /\ r.lineEnd = c.lineEnd
            /\ r.embedding = c.embedding
            /\ r.dependencies = c.dependencies
            /\ r.dependents = c.dependents
            /\ r.id[1] = r.createdAt

\* C8: an unforced analyze of a working copy whose stored baseline is the
\* current revision extracts no file, requests no embedding, makes no
\* persistence call, leaves the store and the project row as they were and
\* returns the stored chunk count.
C8_NoChangesNoWork ==
  [][(/\ runs' = runs + 1
      /\ run'.isGit
      /\ ~run'.force
      /\ run'.baseline # Null
      /\ run'.baseline = run'.head)
     => (/\ run'.mode = "skip"
         /\ run'.files = <<>>
         /\ run'.trace = <<>>
         /\ run'.chunks = <<>>
         /\ store' = store
         /\ project' = project
         /\ run'.totalChunks = Cardinality(store))]_vars

C8_Witness ==
  /\ run.mode = "skip"
  /\ run.isGit /\ ~run.force
  /\ run.baseline # Null /\ run.baseline = run.head
  /\ store # {}

\* C9: a forced analyze is a full run over every file of the project,
\* whatever the git state and the baseline.
C9_ForceIsFull ==
  (run.mode # "none" /\ run.force) =>
    /\ run.mode = "full"
    /\ Range(run.files) = AllFiles

\* forced runs that would otherwise have been skipped
C9_Witness ==
  /\ run.force /\ run.mode = "full"
  /\ run.isGit /\ run.baseline # Null /\ run.baseline = run.head

DiffFiles == {JoinPath(ProjectRoot, f) : f \in {g \in Files : baseTree[g] # tree[g]}}

C12_BrokenVcsIsFull ==
  [][(/\ runs' = runs + 1
      /\ run'.isGit
      /\ \/ run'.currentHash = Null
         \/ /\ run'.baseline \notin {Null, run'.head}
            /\ run'.changedFiles = <<>>
            /\ DiffFiles # {})
     => run'.mode = "full"]_vars

\* C13: a created project has no lastCommitHash before its first analyze, and
\* its first analyze is not skipped as "no changes".
C13_NoBaselineBeforeFirstRun ==
  /\ (project # NoProject /\ runs = 0) => project.lastCommitHash = Null
  /\ runs = 1 => run.mode # "skip"

\* C14: a run in which an embedding request fails raises, persists nothing
\* and leaves lastCommitHash as it was, in full and in incremental mode.
C14_EmbeddingFailureIsFatal ==
  [][(/\ runs' = runs + 1
      /\ run'.mode \in {"full", "incremental"}
      /\ run'.fault[1] = "embed"
      /\ JoinPath(ProjectRoot, run'.fault[2]) \in Range(run'.files)
      /\ tree[run'.fault[2]] # <<>>)
     => (/\ run'.error = "embedding"
         /\ store' = store
         /\ project' = project)]_vars

\* C15: a run that raises with a persistence failure leaves the chunk store
\* and lastCommitHash at their values before the run.
C15_PersistenceFailureWritesNothing ==
  [][(runs' = runs + 1 /\ run'.error = "persistence")
     => (store' = store /\ project' = project)]_vars

\* what the extraction of the given files yields
ExtractedFrom(t, files) ==
  UNION {{<<c.path, c.name, c.code>> :
            c \in Range(extractCodeChunksFromFile(t, JoinPath(ProjectRoot, f)))}
         : f \in files}

\* C17: a full run in which the extraction of one file raises completes, and
\* its chunks are those of all the other files.
C17_ExtractionFailureIsLocal ==
  [][(/\ runs' = runs + 1
      /\ run'.mode = "full"
      /\ run'.fault[1] = "extract")
     => (/\ run'.error = ""
         /\ {<<c.path, c.name, c.code>> : c \in Range(run'.chunks)}
              = ExtractedFrom(tree, Files \ {run'.fault[2]}))]_vars

C17_Witness ==
  /\ run.mode = "full"
  /\ run.fault[1] = "extract"
  /\ run.error = ""
  /\ run.chunks # <<>>
  /\ \A i \in DOMAIN run.chunks : run.chunks[i].path # run.fault[2]

\* C16: generateBatchEmbeddings returns one vector per text, in the order of
\* the texts: the i-th result is the vector of the i-th text, also for empty
\* strings and for lists longer than one batch.
C16_OneVectorPerText ==
  ret # None =>
    /\ Len(ret[1]) = Len(arg)
    /\ \A i \in DOMAIN arg : ret[1][i] = EmbedText(arg[i])

\* C18: while getSymbols runs for several files at once, a file whose own
\* requests do not fail never has an attempt fail and never ends with an
\* empty result, whatever happens to the requests of the other files.
C18_SiblingsUnaffected ==
  \A f \in Files :
    (f \notin lsp.failing /\ ~lsp.cannotStart) =>
      /\ lsp.call[f].retryCount = 0
      /\ lsp.call[f].result # "empty"

\* C19: no analyze run, full, incremental or skipped, removes a stored
\* chunk: every (project, path, name) stored before the run is stored after.
C19_NoChunkRemoved ==
  [][\A r \in store :
       \E q \in store' : /\ chunkUniqueIdx(q) = chunkUniqueIdx(r)
                         /\ q.id = r.id
                         /\ q.createdAt = r.createdAt]_vars

\* the file of a deleted symbol was extracted again and the row is still there
C19_Witness ==
  /\ Ran
  /\ run.head = head
  /\ \E r \in store :
       /\ JoinPath(ProjectRoot, r.path) \in Range(run.files)
       /\ \A i \in DOMAIN tree[r.path] : tree[r.path][i].name # r.name

\* what idempotence compares: key, code and the two edge lists as sets
Content(st) ==
  {<<r.path, r.name, r.code, Range(r.dependencies), Range(r.dependents)>> :
     r \in st}

\* C20: a full run that follows a full run at the same revision leaves the
\* stored chunks as they were: same keys, code, dependencies and dependents.
C20_FullRunIdempotent ==
  [][(/\ runs' = runs + 1
      /\ run.mode = "full"
      /\ run'.mode = "full"
      /\ run.head = head)
     => Content(store') = Content(store)]_vars

\* a minimal fixture for each symbol kind of the classification table, with
\* the type its chunk is to have
KindFixtures ==
  {<<AstNode("FunctionDeclaration", "f", "", 0, 2, <<>>), "function">>,
   <<AstNode("ClassDeclaration", "C", "", 0, 3,
             <<AstNode("MethodDeclaration", "m", "", 1, 1, <<>>)>>),
     "function">>,
   <<AstNode("ClassDeclaration", "C", "", 0, 1, <<>>), "class">>,
   <<AstNode("InterfaceDeclaration", "I", "", 0, 2, <<>>), "type">>,
   <<AstNode("TypeAliasDeclaration", "T", "", 0, 1, <<>>), "type">>}
    \cup {<<AstNode("VariableDeclaration", "x", "const", 0, 1,
                    <<AstNode(init, "", "", 0, 1, <<>>)>>), "function">> :
            init \in {"ArrowFunction", "FunctionExpression"}}
    \cup {<<AstNode("VariableDeclaration", "x", flags, 0, 1,
                    <<AstNode("Literal", "", "", 0, 1, <<>>)>>), "constant">> :
            flags \in {"const", "let", "var"}}

\* C21: a file that holds one instance of a symbol kind of the classification
\* table (function, method, arrow function, function expression, class,
\* interface, type alias, const binding with a function-like initializer,
\* other const or variable binding) yields exactly one chunk of the type of
\* that kind.
C21_OneChunkPerKind ==
  (ret # None /\ ret[1].by = "compiler") =>
    \A p \in KindFixtures :
      arg = <<p[1]>> =>
        Cardinality({i \in DOMAIN ret[1].chunks :
                       ret[1].chunks[i].type = p[2]}) = 1

C23_PathInsideRoot ==
  ret # None =>
    \A i \in DOMAIN ret[1].saved :
      LET path == ret[1].saved[i]
      IN  /\ ~path.abs
          /\ path.segs # <<>>
          /\ ".." \notin Range(path.segs)

\* C24: the transitive-dependency walk terminates for every chunk list, also
\* when the dependencies form cycles or name the chunk itself, and expands
\* each name at most once per root.
C24_WalkTerminates ==
  /\ [](\A n \in GraphNames : walk.expanded[n] <= 1)
  /\ <>(walk.done)

\* the walk of a list with a two-chunk cycle and a self-reference has ended
C24_Witness ==
  /\ walk.done
  /\ Len(arg) = 2
  /\ arg[1] = [name |-> "a", dependencies |-> <<"b", "c">>]
  /\ arg[2] = [name |-> "b", dependencies |-> <<"b", "a">>]
  /\ walk.total = 6

C26_StopResetsClient ==
  [][\A f \in Files :
       (/\ lsp.call[f].pc \in {"try", "wait", "stopping"}
        /\ lsp'.call[f].pc \in {"starting", "restarting"})
         => (/\ ~lsp'.server
             /\ ~lsp'.isInitialized
             /\ lsp'.openDocuments = {})]_vars

\* C27: an analyze run moves lastCommitHash to another revision only if it
\* was a full run or extracted from every file that differs between the two
\* revisions; a run that extracted nothing because git diff failed leaves
\* lastCommitHash as it was.
C27_HashAdvanceCoversDiff ==
  [][(/\ runs' = runs + 1
      /\ project'.lastCommitHash # project.lastCommitHash)
     => \/ run'.mode = "full"
        \/ DiffFiles \subseteq Range(run'.files)]_vars

\* C28: the deduplication of a batch drops a chunk only if an earlier chunk
\* of the batch has the same (projectId, path, name): every triple of the
\* batch is still there afterwards, also when path and name hold a "-".
C28_DedupKeepsDistinctTriples ==
  ret # None =>
    \A i \in DOMAIN arg :
      \E k \in DOMAIN ret[1] :
        chunkUniqueIdx(ret[1][k]) = chunkUniqueIdx(arg[i])

\* the dependencies and dependents of every chunk, as sets
EdgeSets(chunks) ==
  {<<chunks[i].id, Range(chunks[i].dependencies),
     Range(chunks[i].dependents)>> : i \in DOMAIN chunks}

\* C29: the dependencies and dependents that reconciliation gives each chunk,
\* as sets, are the same for every order of the chunk list, also when
\* several chunks share a name.
C29_ReconcileOrderFree ==
  ret # None =>
    EdgeSets(ret[1])
      = EdgeSets(processChunkDependencies(
                   [i \in 1..Len(arg) |-> Listed(arg, i)]))

\* C30: every changed file an incremental run extracts from has a source
\* extension and lies outside the ignored directories, and every (path, name)
\* key the run persists is one a full run at the same revision produces.
C30_IncrementalWithinFullScope ==
  ret # None =>
    /\ \A file \in ret[1].processed : isListed(file)
    /\ ret[1].persisted \subseteq ret[1].full

====
